---- MODULE Spec2Model ----
(***************************************************************************)
(* The shop of code/: the site blueprint (catalog, session cart, checkout, *)
(* order confirmation) and the admin blueprint (login gate, product        *)
(* management), over the Product, Order and AdminUser tables.              *)
(*                                                                         *)
(* One action per request handled to completion: the action's parameters   *)
(* are the session the request's cookie names and the form it carries, and *)
(* the handler's answer is kept in resp.  A property of one handler is an  *)
(* action property: every step that is a step of that handler, for some    *)
(* session and form, relates the state before, resp' and the state after.  *)
(* SpecRace alone splits POST /add-product-to-cart into the request being  *)
(* sent, the view running and the response arriving, so that requests of   *)
(* one client overlap.                                                     *)
(*                                                                         *)
(* Python values: None is the string "None"; form values and cart entries  *)
(* are strings, as request.form delivers them; the integer primary keys    *)
(* are integers, and int() converts between the two as peewee's            *)
(* IntegerField does when it binds a query parameter.  float() of a stored *)
(* price text is its value in hundredths (exact; binary rounding of the    *)
(* IEEE double is not modelled) or ValueError.                             *)
(***************************************************************************)
EXTENDS Integers, Sequences, FiniteSets, TLC

\* ---------------------------------------------------------------- bounds
MaxCart == 2        \* carts are explored up to this many entries
MaxProducts == 2    \* product ids 1..MaxProducts
MaxOrders == 1      \* orders are explored up to this many rows

\* ---------------------------------------------------------- input domains
Sessions == {"s1"}
None == "None"                 \* None, where a text is expected
NoneRow == [none |-> TRUE]     \* None, where a table row is expected
IdText == <<"1", "2", "3", "4", "5">>
FormIds == {IdText[i] : i \in 1..MaxProducts}
Names == {"Floss", "Toothbrush"}
Prices == {"1.50", "2.99", ""}
Emails == {"a@a.com"}
Times == {"2020-01-01 10:00:00", "2020-01-01 10:00:01"}
Usernames == {"admin", "mallory"}
Passwords == {"admin", "password"}
Clients == {"s1", "s2"}           \* the clients of the concurrent requests
Requests == {"r1", "r2", "r3"}     \* the requests a worker pool handles at once
Idle == [phase |-> "idle"]         \* a request not yet sent

VARIABLES product, orders, admin_user, session, email_tasks, resp, requests

vars == <<product, orders, admin_user, session, email_tasks, resp, requests>>

\* ------------------------------------------------------- python / flask
\* request.form.get(key): the value, or None when the field was not sent
FormGet(form, key) == IF key \in DOMAIN form THEN form[key] ELSE None

\* truth value of a form value: None and "" are falsy
Truthy(v) == v # None /\ v # ""

\* int(text) of a decimal numeral
int(text) == CHOOSE i \in 1..Len(IdText) : IdText[i] = text

\* float(text) raises ValueError unless the text is a number
is_number(text) == text \in {"1.50", "2.99"}

\* float(text), in hundredths
float(text) ==
    CASE text = "1.50" -> 150
      [] text = "2.99" -> 299

\* d[key] = value on a session dict
SetItem(d, key, value) == (key :> value) @@ d

\* d.pop(key)
Pop(d, key) == [k \in DOMAIN d \ {key} |-> d[k]]

\* the empty dict (a session with no key)
EmptyDict == [k \in {} |-> None]

\* responses
Json(status, body) == [status |-> status, kind |-> "json", body |-> body]
Redirect(endpoint) == [status |-> 302, kind |-> "redirect", location |-> endpoint]
RedirectWith(endpoint, values) ==
    [status |-> 302, kind |-> "redirect", location |-> endpoint, values |-> values]
Render(template, context) ==
    [status |-> 200, kind |-> "render", template |-> template, context |-> context]
Raise(exception) == [status |-> 500, kind |-> "error", exception |-> exception]
Abort(status) == [status |-> status, kind |-> "abort", exception |-> "HTTPException"]

\* ------------------------------------------------------------- models
\* Product.get_or_none(Product.id == product_id), product_id a form text
Product_get_or_none(product_id) ==
    IF product_id \in {IdText[i] : i \in 1..Len(IdText)} /\ int(product_id) \in DOMAIN product
    THEN [id |-> int(product_id), name |-> product[int(product_id)].name,
          price |-> product[int(product_id)].price]
    ELSE NoneRow

\* a lookup that counts the rows from 0
Order_get_or_none_from_zero(order_id) ==
    IF order_id + 1 \in 1..Len(orders)
    THEN [id |-> order_id, email |-> orders[order_id + 1].email,
          timestamp_created |-> orders[order_id + 1].timestamp_created,
          products |-> orders[order_id + 1].products]
    ELSE NoneRow

\* Order.get_or_none(Order.id == order_id)
Order_get_or_none(order_id) ==
    IF order_id \in 1..Len(orders)
    THEN [id |-> order_id, email |-> orders[order_id].email,
          timestamp_created |-> orders[order_id].timestamp_created,
          products |-> orders[order_id].products]
    ELSE NoneRow

\* AdminUser.get_or_none(AdminUser.username == username): the first match
AdminUser_get_or_none(username) ==
    IF \E i \in 1..Len(admin_user) : admin_user[i].username = username
    THEN LET i == CHOOSE i \in 1..Len(admin_user) :
                    /\ admin_user[i].username = username
                    /\ \A j \in 1..(i - 1) : admin_user[j].username # username
         IN  [id |-> i, username |-> admin_user[i].username,
              password |-> admin_user[i].password]
    ELSE NoneRow

\* werkzeug's salted hash, as a value only the same password reproduces
generate_password_hash(password) == <<"pbkdf2:sha256", password>>
check_password_hash(pwhash, password) == pwhash = generate_password_hash(password)

\* --------------------------------------------------------- site blueprint
\* the blueprint's context processor, run when a site view renders a template
inject_variables(d) == IF "cart" \in DOMAIN d THEN d ELSE SetItem(d, "cart", <<>>)

\* GET /
index(s) ==
    /\ resp' = Render("index.html", [products |-> product])
    /\ session' = [session EXCEPT ![s] = inject_variables(session[s])]
    /\ UNCHANGED <<product, orders, admin_user, email_tasks, requests>>

\* GET /<product_name>
view_product(s, product_name) ==
    LET found == \E i \in DOMAIN product : product[i].name = product_name IN
    /\ IF ~found
       THEN /\ resp' = Abort(404)
            /\ UNCHANGED session
       ELSE /\ resp' = Render("products/view_product.html", [name |-> product_name])
            /\ session' = [session EXCEPT ![s] = inject_variables(session[s])]
    /\ UNCHANGED <<product, orders, admin_user, email_tasks, requests>>

\* an insert at the head of the list instead of an append
cart_insert_front(current_cart, product_id) == <<product_id>> \o current_cart

\* current_cart.append(product_id)
cart_append(current_cart, product_id) == Append(current_cart, product_id)

\* POST /add-product-to-cart
add_product_to_cart(s, form) ==
    LET product_id == FormGet(form, "product_id") IN
    /\ IF ~Truthy(product_id)
       THEN /\ resp' = IF "cart" \notin DOMAIN session[s]
                       THEN Raise("KeyError")
                       ELSE Json(200, [success |-> FALSE,
                                       cart_items |-> Len(session[s]["cart"])])
            /\ UNCHANGED session
       ELSE IF "cart" \notin DOMAIN session[s]
       THEN /\ resp' = Raise("KeyError")
            /\ UNCHANGED session
       ELSE /\ Len(session[s]["cart"]) < MaxCart
            /\ session' = [session EXCEPT
                    ![s] = SetItem(@, "cart", cart_append(@["cart"], product_id))]
            /\ resp' = Json(200, [success |-> TRUE,
                                  cart_items |-> Len(session'[s]["cart"])])
    /\ UNCHANGED <<product, orders, admin_user, email_tasks, requests>>

\* cart_products, a dict in insertion order: a sequence of
\* [name, total, quantity] with no name twice
HasKey(cart_products, name) ==
    \E j \in 1..Len(cart_products) : cart_products[j].name = name

\* lines 46-50 of the loop body, for a product p that was found
add_line(cart_products, p) ==
    IF ~HasKey(cart_products, p.name)
    THEN Append(cart_products,
                [name |-> p.name, total |-> float(p.price), quantity |-> 1])
    ELSE [j \in 1..Len(cart_products) |->
            IF cart_products[j].name = p.name
            THEN [name |-> p.name,
                  total |-> cart_products[j].total + float(p.price),
                  quantity |-> cart_products[j].quantity + 1]
            ELSE cart_products[j]]

\* the loop over session["cart"] from entry i on: the exception it raises
\* (None if it ends) and cart_products
RECURSIVE cart_loop(_, _, _)
cart_loop(cart, i, cart_products) ==
    IF i > Len(cart)
    THEN [raised |-> None, cart_products |-> cart_products]
    ELSE LET p == Product_get_or_none(cart[i]) IN
         IF p = NoneRow
         THEN [raised |-> "AttributeError", cart_products |-> cart_products]
         ELSE IF ~is_number(p.price)
         THEN [raised |-> "ValueError", cart_products |-> cart_products]
         ELSE cart_loop(cart, i + 1, add_line(cart_products, p))

\* cart_items, the rows handed to the template
cart_items_of(cart_products) ==
    [j \in 1..Len(cart_products) |->
        [name |-> cart_products[j].name,
         quantity |-> cart_products[j].quantity,
         total_price |-> cart_products[j].total]]

\* total_price, accumulated over the first j rows
RECURSIVE total_price_of(_, _)
total_price_of(cart_products, j) ==
    IF j = 0 THEN 0
    ELSE total_price_of(cart_products, j - 1) + cart_products[j].total

\* the dict as the JSONField stores it: name -> {total, quantity}
as_json(cart_products) ==
    [n \in {cart_products[j].name : j \in 1..Len(cart_products)} |->
        LET j == CHOOSE j \in 1..Len(cart_products) : cart_products[j].name = n
        IN  [total |-> cart_products[j].total,
             quantity |-> cart_products[j].quantity]]

\* the Order row that checkout saves
new_order(user_email, now, cart_products) ==
    [email |-> user_email, timestamp_created |-> now,
     products |-> as_json(cart_products)]

\* a row that is built and never saved
order_not_saved(order) == orders

\* order.save() of a new row: the table with the row inserted; its id is its place
order_save(order) == Append(orders, order)

\* GET, POST /checkout; now is datetime.now() as formatted, whatever the clock reads
checkout(s, method, form) ==
    /\ IF "cart" \notin DOMAIN session[s]
       THEN /\ resp' = Raise("KeyError")
            /\ UNCHANGED <<orders, session>>
       ELSE LET loop == cart_loop(session[s]["cart"], 1, <<>>)
                cart_products == loop.cart_products
                user_email == FormGet(form, "email")
            IN
            IF loop.raised # None
            THEN /\ resp' = Raise(loop.raised)
                 /\ UNCHANGED <<orders, session>>
            ELSE IF method = "POST"
            THEN IF user_email = None
                 THEN /\ resp' = Raise("IntegrityError")
                      /\ UNCHANGED <<orders, session>>
                 ELSE /\ Len(orders) < MaxOrders
                      /\ \E now \in Times :
                            orders' = order_save(new_order(user_email, now, cart_products))
                      /\ session' = [session EXCEPT
                              ![s] = SetItem(@, "recent_order_id", Len(orders'))]
                      /\ resp' = Redirect("site.complete")
            ELSE /\ resp' = Render("checkout.html",
                        [cart_items |-> cart_items_of(cart_products),
                         total_price |-> total_price_of(cart_products,
                                                        Len(cart_products))])
                 /\ session' = [session EXCEPT ![s] = inject_variables(session[s])]
                 /\ UNCHANGED orders
    /\ UNCHANGED <<product, admin_user, email_tasks, requests>>

\* the cart emptied, recent_order_id left in the session
forget_order_keeps_id(d) == SetItem(d, "cart", <<>>)

\* session.pop("recent_order_id"); session["cart"] = []
forget_order(d) == SetItem(Pop(d, "recent_order_id"), "cart", <<>>)

\* GET /complete
complete(s) ==
    /\ IF "recent_order_id" \notin DOMAIN session[s]
       THEN /\ resp' = Redirect("site.index")
            /\ UNCHANGED session
       ELSE LET order == Order_get_or_none(session[s]["recent_order_id"]) IN
            /\ session' = [session EXCEPT ![s] = forget_order(@)]
            /\ resp' = Render("complete.html", [order |-> order])
    /\ UNCHANGED <<product, orders, admin_user, email_tasks, requests>>

\* --------------------------------------------------------- admin blueprint
\* a gate that guards the index page only
admin_before_request_index_only(endpoint, d) ==
    endpoint = "admin.admin_index" /\ "logged_in" \notin DOMAIN d

\* before_request of the blueprint: TRUE when it answers with the redirect
\* to the login page, so that the view does not run
admin_before_request(endpoint, d) ==
    endpoint # "admin.admin_login" /\ "logged_in" \notin DOMAIN d

\* GET /admin/ and GET /admin/create-product
admin_page(s, endpoint) ==
    /\ resp' = IF admin_before_request(endpoint, session[s])
               THEN Redirect("admin.admin_login")
               ELSE IF endpoint = "admin.admin_index"
               THEN Render("admin/index.html", [all_products |-> product])
               ELSE Render("/admin/products/create_product.html", EmptyDict)
    /\ UNCHANGED <<product, orders, admin_user, session, email_tasks, requests>>

\* GET, POST /admin/login
admin_login(s, method, form) ==
    LET username == FormGet(form, "username")
        password == FormGet(form, "password")
        user == AdminUser_get_or_none(username)
    IN
    /\ IF method = "POST" /\ user # NoneRow
       THEN IF password = None
            THEN /\ resp' = Raise("TypeError")
                 /\ UNCHANGED session
            ELSE IF check_password_hash(user.password, password)
            THEN /\ session' = [session EXCEPT
                        ![s] = SetItem(SetItem(@, "logged_in", TRUE),
                                       "admin_user_id", user.id)]
                 /\ resp' = Redirect("admin.admin_index")
            ELSE /\ resp' = Render("admin/login.html", [flash |-> "Please try again!"])
                 /\ UNCHANGED session
       ELSE /\ resp' = IF method = "POST"
                       THEN Render("admin/login.html", [flash |-> "Please try again"])
                       ELSE Render("admin/login.html", [flash |-> ""])
            /\ UNCHANGED session
    /\ UNCHANGED <<product, orders, admin_user, email_tasks, requests>>

\* the id SQLite gives a new row of an INTEGER PRIMARY KEY table: one more than
\* the largest in use
next_id ==
    IF DOMAIN product = {} THEN 1
    ELSE (CHOOSE i \in DOMAIN product : \A j \in DOMAIN product : j <= i) + 1

\* the table after product.save() of the row id
product_save(id, name, price) ==
    [i \in DOMAIN product \cup {id} |->
        IF i = id THEN [name |-> name, price |-> price] ELSE product[i]]

\* POST /admin/save-product
save_product(s, form) ==
    LET product_id == FormGet(form, "product_id")
        name == FormGet(form, "name")
        price == FormGet(form, "price")
        id == IF Truthy(product_id) THEN int(product_id) ELSE next_id
    IN
    /\ IF admin_before_request("admin.save_product", session[s])
       THEN /\ resp' = Redirect("admin.admin_login")
            /\ UNCHANGED product
       ELSE IF Truthy(product_id) /\ Product_get_or_none(product_id) = NoneRow
       THEN /\ resp' = Redirect("admin.admin_index")
            /\ UNCHANGED product
       ELSE IF name = None \/ price = None
       THEN /\ resp' = Raise("IntegrityError")
            /\ UNCHANGED product
       ELSE /\ id <= MaxProducts
            /\ product' = product_save(id, name, price)
            /\ resp' = RedirectWith("admin.edit_product", [product_id |-> id])
    /\ UNCHANGED <<orders, admin_user, session, email_tasks, requests>>

\* Product.delete().where(Product.id == product_id).execute()
product_delete(product_id) ==
    IF Truthy(product_id)
    THEN [i \in DOMAIN product \ {int(product_id)} |-> product[i]]
    ELSE product

\* POST /admin/delete-product
delete_product(s, form) ==
    LET product_id == FormGet(form, "product_id") IN
    /\ IF admin_before_request("admin.delete_product", session[s])
       THEN /\ resp' = Redirect("admin.admin_login")
            /\ UNCHANGED product
       ELSE IF Truthy(product_id) /\ Product_get_or_none(product_id) = NoneRow
       THEN /\ resp' = Json(400, [success |-> FALSE, message |-> "Product not found"])
            /\ UNCHANGED product
       ELSE /\ product' = product_delete(product_id)
            /\ resp' = Json(200, [success |-> TRUE, message |-> "Product Deleted"])
    /\ UNCHANGED <<orders, admin_user, session, email_tasks, requests>>

\* ------------------------------------------------------------ the system
\* the forms a client sends
AddForms == {EmptyDict} \cup {[product_id |-> v] : v \in FormIds \cup {""}}
CheckoutForms == {EmptyDict} \cup {[email |-> e] : e \in Emails}
LoginForms ==
    {[username |-> u, password |-> p] : u \in Usernames, p \in Passwords}
    \cup {[username |-> u] : u \in Usernames}
SaveForms ==
    {[name |-> n, price |-> p] : n \in Names, p \in Prices}
    \cup {[product_id |-> i, name |-> n, price |-> p] :
            i \in FormIds, n \in Names, p \in Prices}
    \cup {[price |-> "1.50"]}
DeleteForms == {EmptyDict} \cup {[product_id |-> i] : i \in FormIds}
AdminPages == {"admin.admin_index", "admin.create_product"}

\* the client drops its cookie (the tests' s.clear()): the session of its next
\* request holds nothing; the tables stay
session_clear(s) ==
    /\ resp' = [status |-> 0, kind |-> ""]
    /\ session' = [session EXCEPT ![s] = EmptyDict]
    /\ UNCHANGED <<product, orders, admin_user, email_tasks, requests>>

\* empty tables but for the one admin user; no session holds anything yet
Init ==
    /\ product = [i \in {} |-> [name |-> "", price |-> ""]]
    /\ orders = <<>>
    /\ admin_user = <<[username |-> "admin",
                       password |-> generate_password_hash("admin")]>>
    /\ session = [s \in Sessions |-> EmptyDict]
    /\ email_tasks = <<>>
    /\ resp = [status |-> 0, kind |-> ""]
    /\ requests = [r \in Requests |-> Idle]

Next ==
    \E s \in Sessions :
        \/ index(s)
        \/ \E product_name \in Names : view_product(s, product_name)
        \/ \E form \in AddForms : add_product_to_cart(s, form)
        \/ checkout(s, "GET", EmptyDict)
        \/ \E form \in CheckoutForms : checkout(s, "POST", form)
        \/ complete(s)
        \/ \E endpoint \in AdminPages : admin_page(s, endpoint)
        \/ admin_login(s, "GET", EmptyDict)
        \/ \E form \in LoginForms : admin_login(s, "POST", form)
        \/ \E form \in SaveForms : save_product(s, form)
        \/ \E form \in DeleteForms : delete_product(s, form)
        \/ session_clear(s)

Spec == Init /\ [][Next]_vars

\* the same system with no order submitted: every request but POST /checkout
NextBrowse ==
    \E s \in Sessions :
        \/ index(s)
        \/ \E product_name \in Names : view_product(s, product_name)
        \/ \E form \in AddForms : add_product_to_cart(s, form)
        \/ checkout(s, "GET", EmptyDict)
        \/ complete(s)
        \/ \E endpoint \in AdminPages : admin_page(s, endpoint)
        \/ admin_login(s, "GET", EmptyDict)
        \/ \E form \in LoginForms : admin_login(s, "POST", form)
        \/ \E form \in SaveForms : save_product(s, form)
        \/ \E form \in DeleteForms : delete_product(s, form)
        \/ session_clear(s)

SpecBrowse == Init /\ [][NextBrowse]_vars

\* the site alone over the catalog of the checkout tests: Floss at 1.50 and
\* Toothbrush at 2.99, no admin request
InitSite ==
    /\ product = <<[name |-> "Floss", price |-> "1.50"],
                   [name |-> "Toothbrush", price |-> "2.99"]>>
    /\ orders = <<>>
    /\ admin_user = <<[username |-> "admin",
                       password |-> generate_password_hash("admin")]>>
    /\ session = [s \in Sessions |-> EmptyDict]
    /\ email_tasks = <<>>
    /\ resp = [status |-> 0, kind |-> ""]
    /\ requests = [r \in Requests |-> Idle]

NextSite ==
    \E s \in Sessions :
        \/ index(s)
        \/ \E product_name \in Names : view_product(s, product_name)
        \/ \E form \in AddForms : add_product_to_cart(s, form)
        \/ checkout(s, "GET", EmptyDict)
        \/ \E form \in CheckoutForms : checkout(s, "POST", form)
        \/ complete(s)
        \/ session_clear(s)

SpecSite == InitSite /\ [][NextSite]_vars

\* ----------------------------------------------- requests handled at once
\* The session is Flask's signed cookie (app.secret_key, no server-side
\* store): session[s] is the cookie the client s holds.  A request carries the
\* cookie its client held when it was sent, the view works on the request's
\* own copy, and the response's Set-Cookie replaces the client's cookie when
\* it arrives.  requests[r] is one request on its way:
\*   idle -> opened (sent, session opened from its cookie)
\*        -> handled (view returned) -> done (response received)

\* the client s sends POST /add-product-to-cart with its cookie
open_session(r, s, form) ==
    /\ requests[r] = Idle
    /\ requests' = [requests EXCEPT ![r] =
            [phase |-> "opened", s |-> s, form |-> form, cookie |-> session[s],
             session |-> session[s], modified |-> FALSE,
             resp |-> [status |-> 0, kind |-> ""]]]
    /\ UNCHANGED <<product, orders, admin_user, session, email_tasks, resp>>

\* the view add_product_to_cart on the session d of one request: the session
\* it leaves, whether it assigned to it, and its answer
add_product_to_cart_view(d, form) ==
    LET product_id == FormGet(form, "product_id") IN
    IF "cart" \notin DOMAIN d
    THEN [session |-> d, modified |-> FALSE, resp |-> Raise("KeyError")]
    ELSE IF ~Truthy(product_id)
    THEN [session |-> d, modified |-> FALSE,
          resp |-> Json(200, [success |-> FALSE, cart_items |-> Len(d["cart"])])]
    ELSE LET current_cart == cart_append(d["cart"], product_id) IN
         [session |-> SetItem(d, "cart", current_cart), modified |-> TRUE,
          resp |-> Json(200, [success |-> TRUE, cart_items |-> Len(current_cart)])]

\* a worker runs the view of the request r
dispatch_request(r) ==
    /\ requests[r].phase = "opened"
    /\ LET out == add_product_to_cart_view(requests[r].session, requests[r].form) IN
       requests' = [requests EXCEPT ![r].phase = "handled",
                                    ![r].session = out.session,
                                    ![r].modified = out.modified,
                                    ![r].resp = out.resp]
    /\ UNCHANGED <<product, orders, admin_user, session, email_tasks, resp>>

\* a Set-Cookie that adds the request's last entry to the cookie the client holds
set_cookie_merged(cookie, request_session) ==
    IF "cart" \in DOMAIN cookie
    THEN SetItem(cookie, "cart",
                 Append(cookie["cart"],
                        request_session["cart"][Len(request_session["cart"])]))
    ELSE request_session

\* Set-Cookie: the session of the request replaces the cookie the client holds
set_cookie(cookie, request_session) == request_session

\* the response of r reaches its client; it carries a Set-Cookie when the view
\* assigned to the session
save_session(r) ==
    /\ requests[r].phase = "handled"
    /\ requests' = [requests EXCEPT ![r].phase = "done"]
    /\ resp' = requests[r].resp
    /\ session' = IF requests[r].modified
                  THEN [session EXCEPT ![requests[r].s] =
                            set_cookie(@, requests[r].session)]
                  ELSE session
    /\ UNCHANGED <<product, orders, admin_user, email_tasks>>

\* two clients that have each loaded the home page: both hold an empty cart
InitRace ==
    /\ product = <<[name |-> "Floss", price |-> "1.50"],
                   [name |-> "Toothbrush", price |-> "2.99"]>>
    /\ orders = <<>>
    /\ admin_user = <<[username |-> "admin",
                       password |-> generate_password_hash("admin")]>>
    /\ session = [s \in Clients |-> inject_variables(EmptyDict)]
    /\ email_tasks = <<>>
    /\ resp = [status |-> 0, kind |-> ""]
    /\ requests = [r \in Requests |-> Idle]

NextRace ==
    \E r \in Requests :
        \/ \E s \in Clients : \E form \in AddForms : open_session(r, s, form)
        \/ dispatch_request(r)
        \/ save_session(r)

SpecRace == InitRace /\ [][NextRace]_vars

\* ------------------------------------------------------------ properties
HasCart(s) == "cart" \in DOMAIN session[s]
Cart(s) == session[s]["cart"]
CartOrEmpty(s) == IF HasCart(s) THEN Cart(s) ELSE <<>>
Count(cart, product_id) == Cardinality({k \in 1..Len(cart) : cart[k] = product_id})
Supplied(form, key) == FormGet(form, key) \notin {None, ""}

RECURSIVE SumTotalPrice(_, _)
SumTotalPrice(rows, j) ==
    IF j = 0 THEN 0 ELSE SumTotalPrice(rows, j - 1) + rows[j].total_price

\* the cart without the entries whose product the catalog does not hold
Present(cart) == SelectSeq(cart, LAMBDA x : Product_get_or_none(x) # NoneRow)

\* C1: whenever checkout has rendered the aggregate of a cart, every catalog
\* product whose id occurs n > 0 times in the cart has a row under its name with
\* quantity n and total n x its current price, and the grand total is the sum of
\* the rows' totals.
C1_AggregatePerProduct ==
    \A s \in Sessions :
        (resp.kind = "render" /\ resp.template = "checkout.html" /\ HasCart(s)) =>
            LET rows == resp.context.cart_items IN
            /\ \A i \in DOMAIN product :
                   LET n == Count(Cart(s), IdText[i]) IN
                   n > 0 => \E j \in 1..Len(rows) :
                                /\ rows[j].name = product[i].name
                                /\ rows[j].quantity = n
                                /\ rows[j].total_price = n * float(product[i].price)
            /\ resp.context.total_price = SumTotalPrice(rows, Len(rows))

\* C2: every POST /checkout that carries an email, in a session with a cart,
\* inserts exactly one Order with that email and the aggregate of the cart, puts
\* its id in the session as recent_order_id and leaves the cart as it was; and a
\* non-empty cart becomes empty only by a GET /complete.
C2_SubmitPersistsOneOrder ==
    [][\A s \in Sessions :
        /\ \A form \in CheckoutForms :
              (checkout(s, "POST", form) /\ "email" \in DOMAIN form /\ HasCart(s)) =>
                  /\ Len(orders') = Len(orders) + 1
                  /\ orders'[Len(orders')].email = form["email"]
                  /\ orders'[Len(orders')].products =
                        as_json(cart_loop(Present(Cart(s)), 1, <<>>).cart_products)
                  /\ "recent_order_id" \in DOMAIN session'[s]
                  /\ session'[s]["recent_order_id"] = Len(orders')
                  /\ session'[s]["cart"] = Cart(s)
        /\ (HasCart(s) /\ Cart(s) # <<>> /\ "cart" \in DOMAIN session'[s]
               /\ session'[s]["cart"] = <<>>) => complete(s)
      ]_vars

\* C3: every add-to-cart that carries a non-empty product_id, in a session with a
\* cart, leaves the cart with that id appended after the earlier entries, and
\* answers success=true with cart_items the earlier length plus 1.
C3_AddAppendsOne ==
    [][\A s \in Sessions : \A form \in AddForms :
        (add_product_to_cart(s, form) /\ Supplied(form, "product_id") /\ HasCart(s)) =>
            /\ session'[s]["cart"] = Append(Cart(s), form["product_id"])
            /\ resp' = Json(200, [success |-> TRUE, cart_items |-> Len(Cart(s)) + 1])
            /\ resp'.body.cart_items = Len(session'[s]["cart"])
      ]_vars

\* an add-to-cart has put a second entry, of a product the catalog does not hold,
\* behind an entry of a product it holds
C3_Witness ==
    \E s \in Sessions :
        /\ resp = Json(200, [success |-> TRUE, cart_items |-> 2])
        /\ HasCart(s) /\ Len(Cart(s)) = 2
        /\ Product_get_or_none(Cart(s)[1]) # NoneRow
        /\ Product_get_or_none(Cart(s)[2]) = NoneRow

\* C4: every add-to-cart that carries no product_id is answered without an
\* error, success=false with cart_items the length of the session's cart (a
\* session that holds none counting as an empty cart), and changes neither the
\* cart nor the tables.
C4_AddWithoutIdChangesNothing ==
    [][\A s \in Sessions : \A form \in AddForms :
        (add_product_to_cart(s, form) /\ ~Supplied(form, "product_id")) =>
            /\ resp' = Json(200, [success |-> FALSE, cart_items |-> Len(CartOrEmpty(s))])
            /\ CartOrEmpty(s)' = CartOrEmpty(s)
            /\ product' = product /\ orders' = orders
      ]_vars

\* C5: every GET /checkout on a cart with an entry whose product the catalog
\* does not hold renders, without an error, the aggregate of the other entries,
\* and leaves the cart as it was.
C5_AbsentProductSkipped ==
    [][\A s \in Sessions :
        (/\ checkout(s, "GET", EmptyDict)
         /\ HasCart(s)
         /\ \E k \in 1..Len(Cart(s)) : Product_get_or_none(Cart(s)[k]) = NoneRow
         /\ \A k \in 1..Len(Cart(s)) :
                Product_get_or_none(Cart(s)[k]) # NoneRow =>
                    is_number(Product_get_or_none(Cart(s)[k]).price)) =>
            LET rows == cart_items_of(cart_loop(Present(Cart(s)), 1, <<>>).cart_products) IN
            /\ resp' = Render("checkout.html",
                    [cart_items |-> rows, total_price |-> SumTotalPrice(rows, Len(rows))])
            /\ session' = session
      ]_vars

\* C6: the confirmation emails dispatched are, in order, one per persisted order,
\* each to its order's email.
C6_OneEmailPerOrder ==
    /\ Len(email_tasks) = Len(orders)
    /\ \A i \in 1..Len(orders) : email_tasks[i] = orders[i].email

\* C7: a GET /complete in a session without recent_order_id redirects to the
\* catalog home and changes nothing; with recent_order_id it renders, removes
\* recent_order_id and leaves the cart empty; a GET /complete that follows a
\* rendered one at once redirects to the catalog home.
C7_CompleteOnce ==
    [][\A s \in Sessions :
        /\ (complete(s) /\ "recent_order_id" \notin DOMAIN session[s]) =>
              /\ resp' = Redirect("site.index")
              /\ session' = session /\ orders' = orders /\ product' = product
        /\ (complete(s) /\ "recent_order_id" \in DOMAIN session[s]) =>
              /\ resp'.kind = "render" /\ resp'.template = "complete.html"
              /\ "recent_order_id" \notin DOMAIN session'[s]
              /\ session'[s]["cart"] = <<>>
              /\ orders' = orders
        /\ (complete(s) /\ resp.kind = "render" /\ resp.template = "complete.html") =>
              resp' = Redirect("site.index")
      ]_vars

\* the confirmation of an order of a non-empty cart has been rendered
C7_Witness ==
    \E s \in Sessions :
        /\ resp.kind = "render" /\ resp.template = "complete.html"
        /\ resp.context.order # NoneRow
        /\ DOMAIN resp.context.order.products # {}
        /\ HasCart(s) /\ Cart(s) = <<>>
        /\ "recent_order_id" \notin DOMAIN session[s]

\* C8: a request to an admin endpoint other than the login, in a session without
\* logged_in, is answered by the redirect to the login and changes no table and
\* no session (stated by its contrapositive: a step that is not such an answer is
\* no step of a gated endpoint in that session); the product table changes only
\* in a step taken while some session holds logged_in; and a session gains
\* logged_in only by a login POST whose username is an admin user's and whose
\* password is the one that user's hash was made of.
C8_AdminGate ==
    [][\A s \in Sessions :
        /\ ("logged_in" \notin DOMAIN session[s]
              /\ ~(/\ resp' = Redirect("admin.admin_login")
                   /\ product' = product /\ orders' = orders /\ session' = session)) =>
              /\ \A endpoint \in AdminPages : ~admin_page(s, endpoint)
              /\ \A form \in SaveForms : ~save_product(s, form)
              /\ \A form \in DeleteForms : ~delete_product(s, form)
        /\ product' # product => \E s2 \in Sessions : "logged_in" \in DOMAIN session[s2]
        /\ ("logged_in" \notin DOMAIN session[s] /\ "logged_in" \in DOMAIN session'[s]) =>
              \E form \in LoginForms :
                  /\ admin_login(s, "POST", form)
                  /\ "password" \in DOMAIN form
                  /\ \E i \in 1..Len(admin_user) :
                        /\ admin_user[i].username = form["username"]
                        /\ admin_user[i].password = <<"pbkdf2:sha256", form["password"]>>
      ]_vars

\* a session without logged_in has been sent to the login while the product
\* table holds a row
C8_Witness ==
    \E s \in Sessions :
        /\ resp = Redirect("admin.admin_login")
        /\ "logged_in" \notin DOMAIN session[s]
        /\ DOMAIN product # {}

C10_NoCartIsEmptyCart ==
    [][\A s \in Sessions : ~HasCart(s) =>
        /\ \A form \in AddForms :
              (add_product_to_cart(s, form) /\ Supplied(form, "product_id")) =>
                  /\ resp' = Json(200, [success |-> TRUE, cart_items |-> 1])
                  /\ HasCart(s)' /\ Cart(s)' = <<form["product_id"]>>
        /\ \A form \in AddForms :
              (add_product_to_cart(s, form) /\ ~Supplied(form, "product_id")) =>
                  resp' = Json(200, [success |-> FALSE, cart_items |-> 0])
        /\ checkout(s, "GET", EmptyDict) =>
              resp' = Render("checkout.html", [cart_items |-> <<>>, total_price |-> 0])
        /\ \A form \in CheckoutForms :
              (checkout(s, "POST", form) /\ "email" \in DOMAIN form) =>
                  (resp' = Redirect("site.complete") /\ Len(orders') = Len(orders) + 1)
      ]_vars

\* C11: among requests handled at once, a client's cookie changes only when a
\* response to one of its own requests arrives; a response to an add-to-cart
\* that carried an id leaves the client with the cart its request was sent
\* with plus that one id, and answers success=true with that length, whatever
\* the cookie had become meanwhile; so when it arrives after the response to
\* another request sent with the same cookie, the cart has grown by 1, not 2,
\* though both were answered success=true.
C11_LastWriteWins ==
    [][/\ \A t \in Clients :
            session'[t] # session[t] =>
                \E r \in Requests : save_session(r) /\ requests[r].s = t
       /\ \A r \in Requests :
            (save_session(r) /\ requests[r].modified) =>
                LET sent == requests[r].cookie["cart"] IN
                /\ session'[requests[r].s]["cart"] =
                        Append(sent, requests[r].form["product_id"])
                /\ resp' = Json(200, [success |-> TRUE, cart_items |-> Len(sent) + 1])
                /\ \A q \in Requests \ {r} :
                      (/\ requests[q].phase = "done"
                       /\ requests[q].s = requests[r].s
                       /\ requests[q].cookie = requests[r].cookie
                       /\ requests[q].modified) =>
                          /\ requests[q].resp =
                                Json(200, [success |-> TRUE, cart_items |-> Len(sent) + 1])
                          /\ Len(session'[requests[r].s]["cart"]) = Len(sent) + 1
      ]_vars

\* two requests of one client, sent with the same cart of one entry and with
\* different ids, have both been answered success=true, and the client's cart
\* holds that entry and the id of one of them only; the other client's cart is
\* still empty
C11_Witness ==
    \E r \in Requests : \E q \in Requests \ {r} :
        /\ requests[r].phase = "done" /\ requests[q].phase = "done"
        /\ requests[r].s = requests[q].s
        /\ requests[r].cookie = requests[q].cookie
        /\ Len(requests[r].cookie["cart"]) = 1
        /\ requests[r].modified /\ requests[q].modified
        /\ requests[r].form["product_id"] # requests[q].form["product_id"]
        /\ requests[r].resp.body.success /\ requests[q].resp.body.success
        /\ session[requests[r].s]["cart"] =
                Append(requests[r].cookie["cart"], requests[r].form["product_id"])
        /\ \A t \in Clients \ {requests[r].s} : session[t]["cart"] = <<>>

\* C12: a recent_order_id that a session holds is the id of a row of the order
\* table, and the order page that GET /complete renders shows an order, never
\* None.
C12_RecentOrderExists ==
    /\ \A s \in Sessions :
          "recent_order_id" \in DOMAIN session[s] =>
              Order_get_or_none(session[s]["recent_order_id"]) # NoneRow
    /\ (resp.kind = "render" /\ resp.template = "complete.html") =>
          resp.context.order # NoneRow

\* GET /complete has rendered the order of a product that the admin has deleted
\* since the order was submitted
C12_Witness ==
    /\ resp.kind = "render" /\ resp.template = "complete.html"
    /\ resp.context.order # NoneRow
    /\ resp.context.order = Order_get_or_none(1)
    /\ DOMAIN resp.context.order.products # {}
    /\ DOMAIN product = {}

====
